---------------------------- MODULE Spec2Model ----------------------------
(***************************************************************************)
(* Model of the repository search command: the qualifier/parameter model   *)
(* (pkg/cmd/search/shared/qualifier.go), the Query type and ListSet        *)
(* (pkg/search), the repos command's flag phase (pkg/cmd/search/repos) and *)
(* the paginated Searcher (pkg/cmd/search/shared/searcher.go).             *)
(*                                                                         *)
(* Go strings are sequences of one-character strings, so that quoting,     *)
(* splitting, trimming and URL escaping are computed character by          *)
(* character as the code computes them.                                    *)
(***************************************************************************)
EXTENDS Integers, Sequences, FiniteSets, TLC

(***************************************************************************)
(* Bounds of the model.                                                    *)
(***************************************************************************)
\* number of URL/Search calls made on one Query
MaxCalls == 2
\* number of positional arguments (keywords) on the command line
MaxKeywords == 1
\* length of the `errors` list of an error body
MaxErrors == 2

(***************************************************************************)
(* String literals.                                                        *)
(***************************************************************************)
DQ == "\""
BS == "\\"
SP == " "
TAB == "\t"
CR == "\r"
LF == "\n"

s_empty == << >>
s_q == <<"q">>
s_page == <<"p","a","g","e">>
s_per_page == <<"p","e","r","_","p","a","g","e">>
s_type == <<"t","y","p","e">>
s_order == <<"o","r","d","e","r">>
s_sort == <<"s","o","r","t">>
s_fork == <<"f","o","r","k">>
s_language == <<"l","a","n","g","u","a","g","e">>
s_archived == <<"a","r","c","h","i","v","e","d">>
s_stars == <<"s","t","a","r","s">>
s_asc == <<"a","s","c">>
s_desc == <<"d","e","s","c">>
s_forks == <<"f","o","r","k","s">>
s_hwi == <<"h","e","l","p","-","w","a","n","t","e","d","-","i","s","s","u","e","s">>
s_updated == <<"u","p","d","a","t","e","d">>
s_best_match == <<"b","e","s","t"," ","m","a","t","c","h">>
s_false == <<"f","a","l","s","e">>
s_true == <<"t","r","u","e">>
s_only == <<"o","n","l","y">>
s_c_c == <<"c"," ","c">>
s_ge10 == <<">","=","1","0">>
s_1to5 == <<"1",".",".","5">>
s_5toabc == <<"5",".",".","a">>
s_repositories == <<"r","e","p","o","s","i","t","o","r","i","e","s">>
s_hi_you == <<"h","i"," ","y","o","u">>
s_is_a_b == <<"i","s",":","a"," ","b">>

Digits == {"0","1","2","3","4","5","6","7","8","9"}

(***************************************************************************)
(* Helpers of the Go standard library used by the code.                    *)
(***************************************************************************)
Min(a, b) == IF a < b THEN a ELSE b

\* strings.ContainsAny(s, chars)
ContainsAny(s, chars) == \E i \in 1..Len(s) : s[i] \in chars

\* strings.Contains(s, sub)
Contains(s, sub) ==
  \E i \in 0..(Len(s) - Len(sub)) : SubSeq(s, i + 1, i + Len(sub)) = sub

\* strings.HasPrefix(s, p)
HasPrefix(s, p) == Len(p) <= Len(s) /\ SubSeq(s, 1, Len(p)) = p

\* strings.Join(ss, sep)
RECURSIVE Join(_, _)
Join(ss, sep) ==
  IF Len(ss) = 0 THEN s_empty
  ELSE IF Len(ss) = 1 THEN ss[1]
  ELSE ss[1] \o sep \o Join(Tail(ss), sep)

\* strconv.Quote on one character of the alphabet (the %q verb)
QuoteChar(c) ==
  IF c = DQ THEN <<BS, DQ>>
  ELSE IF c = BS THEN <<BS, BS>>
  ELSE IF c = TAB THEN <<BS, "t">>
  ELSE IF c = CR THEN <<BS, "r">>
  ELSE IF c = LF THEN <<BS, "n">>
  ELSE <<c>>

RECURSIVE QuoteBody(_)
QuoteBody(s) == IF Len(s) = 0 THEN s_empty ELSE QuoteChar(Head(s)) \o QuoteBody(Tail(s))

\* fmt.Sprintf("%q", s)
Quote(s) == <<DQ>> \o QuoteBody(s) \o <<DQ>>

\* index of the first occurrence of character c in s, 0 when absent
IndexOf(s, c) ==
  IF \E i \in 1..Len(s) : s[i] = c
  THEN CHOOSE i \in 1..Len(s) : s[i] = c /\ \A j \in 1..(i - 1) : s[j] # c
  ELSE 0

\* strconv.Itoa for n >= 0
DigitOf(d) == <<"0","1","2","3","4","5","6","7","8","9">>[d + 1]

RECURSIVE Itoa(_)
Itoa(n) == IF n < 10 THEN <<DigitOf(n)>> ELSE Itoa(n \div 10) \o <<DigitOf(n % 10)>>

\* the value of a decimal digit string
DigitVal(c) == CHOOSE d \in 0..9 : DigitOf(d) = c

RECURSIVE Atoi(_)
Atoi(s) == IF Len(s) = 0 THEN 0 ELSE 10 * Atoi(SubSeq(s, 1, Len(s) - 1)) + DigitVal(s[Len(s)])

(***************************************************************************)
(* qualifier.go: validators.  A validator is a record naming its kind and  *)
(* options; Validate returns the error (a message) or Nil.                 *)
(***************************************************************************)
\* the nil error; every error value is a record with a kind
Nil == [kind |-> "nil"]

ValidationError(msg) == [kind |-> "validation", msg |-> msg]

NoValidator == [kind |-> "none", opts |-> << >>]

\* qualifier.go:100 isIncluded
isIncluded(value, opts) == \E i \in 1..Len(opts) : value = opts[i]

\* qualifier.go:77 OptsValidator
OptsValidator(opts) == [kind |-> "opts", opts |-> opts]

\* qualifier.go:110 BoolValidator; the tokens strconv.ParseBool accepts
BoolTokens ==
  { <<"1">>, <<"t">>, <<"T">>, <<"T","R","U","E">>, s_true, <<"T","r","u","e">>,
    <<"0">>, <<"f">>, <<"F">>, <<"F","A","L","S","E">>, s_false, <<"F","a","l","s","e">> }

BoolValidator == [kind |-> "bool", opts |-> << >>]

\* qualifier.go:14 rangeRE = ^(>|>=|<|<=|\*\.\.)?\d+(\.\.(\*|\d+))?$
RangePrefixes == { s_empty, <<">">>, <<">","=">>, <<"<">>, <<"<","=">>, <<"*",".",".">> }

AllDigits(s) == Len(s) >= 1 /\ \A i \in 1..Len(s) : s[i] \in Digits

\* \d+(\.\.(\*|\d+))?$
MatchRangeBody(s) ==
  \E k \in 1..Len(s) :
    /\ AllDigits(SubSeq(s, 1, k))
    /\ LET rest == SubSeq(s, k + 1, Len(s)) IN
         \/ rest = s_empty
         \/ /\ HasPrefix(rest, <<".",".">>)
            /\ LET hi == SubSeq(rest, 3, Len(rest)) IN hi = <<"*">> \/ AllDigits(hi)

rangeRE(s) ==
  \E p \in RangePrefixes : HasPrefix(s, p) /\ MatchRangeBody(SubSeq(s, Len(p) + 1, Len(s)))

\* qualifier.go:121 RangeValidator
RangeValidator == [kind |-> "range", opts |-> << >>]

s_not_included == <<" ","i","s"," ","n","o","t"," ","i","n","c","l","u","d","e","d"," ","i","n"," ","[">>
s_not_bool == <<" ","i","s"," ","n","o","t"," ","a"," ","b","o","o","l","e","a","n"," ","v","a","l","u","e">>
s_bad_range == <<" ","i","s"," ","a","n"," ","i","n","v","a","l","i","d"," ","r","a","n","g","e"," ","f","o","r","m","a","t">>

\* the call q.validator(value) of qualifier.go:58
Validate(validator, value) ==
  IF validator.kind = "opts"
  THEN IF ~isIncluded(value, validator.opts)
       THEN ValidationError(value \o s_not_included \o Join(validator.opts, <<",", " ">>) \o <<"]">>)
       ELSE Nil
  ELSE IF validator.kind = "bool"
  THEN IF value \notin BoolTokens THEN ValidationError(value \o s_not_bool) ELSE Nil
  ELSE IF validator.kind = "range"
  THEN IF ~rangeRE(value) THEN ValidationError(value \o s_bad_range) ELSE Nil
  ELSE Nil

(***************************************************************************)
(* qualifier.go: the qualifier struct and its methods.                     *)
(***************************************************************************)
\* NewQualifier marking a qualifier with a non-empty default as set
NewQualifierSetByDefault(key, kind, value, validator) ==
  [key |-> key, kind |-> kind, set |-> (value # s_empty), validator |-> validator,
   value |-> value]

\* qualifier.go:30 NewQualifier
NewQualifier(key, kind, value, validator) ==
  [key |-> key, kind |-> kind, set |-> FALSE, validator |-> validator, value |-> value]

\* qualifier.go:39 NewParameter
NewParameter(key, kind, value, validator) ==
  [key |-> key, kind |-> kind, set |-> FALSE, validator |-> validator, value |-> value]

\* qualifier.go:48 IsSet
IsSet(q) == q.set

\* qualifier.go:52 Key
Key(q) == q.key

\* qualifier.go:68 String
String(q) == q.value

\* Set storing the value before it runs the validator
SetStoresFirst(q, value) ==
  LET err == IF q.validator.kind # "none" THEN Validate(q.validator, value) ELSE Nil IN
    IF err # Nil
    THEN [q |-> [q EXCEPT !.value = value], err |-> err]
    ELSE [q |-> [q EXCEPT !.set = TRUE, !.value = value], err |-> Nil]

\* qualifier.go:56 Set: the qualifier after the call and the error returned
Set(q, value) ==
  LET err == IF q.validator.kind # "none" THEN Validate(q.validator, value) ELSE Nil IN
    IF err # Nil
    THEN [q |-> q, err |-> err]
    ELSE [q |-> [q EXCEPT !.set = TRUE, !.value = value], err |-> Nil]

(***************************************************************************)
(* pkg/search: Query, Result and Qualifiers.ListSet.                       *)
(***************************************************************************)
\* ListSet without the IsSet test: every qualifier that holds a value
ListSetIgnoringIsSet(qualifiers) ==
  LET ids == {id \in DOMAIN qualifiers : String(qualifiers[id]) # s_empty} IN
    [k \in {Key(qualifiers[id]) : id \in ids} |->
       String(qualifiers[CHOOSE id \in ids : Key(qualifiers[id]) = k])]

\* Qualifiers.ListSet: the map from wire key to value of the set qualifiers
\* (m[v.Key()] = v.String(); the keys of one Query are pairwise distinct)
ListSet(qualifiers) ==
  LET setIds == {id \in DOMAIN qualifiers : IsSet(qualifiers[id])} IN
    [k \in {Key(qualifiers[id]) : id \in setIds} |->
       String(qualifiers[CHOOSE id \in setIds : Key(qualifiers[id]) = k])]

\* the orders in which `range` may visit the keys of a Go map
RangeOrders(m) ==
  {ord \in [1..Cardinality(DOMAIN m) -> DOMAIN m] :
     \A i, j \in 1..Cardinality(DOMAIN m) : i # j => ord[i] # ord[j]}

\* search.Result{}
EmptyResult == [IncompleteResults |-> FALSE, Items |-> << >>, TotalCount |-> 0]

(***************************************************************************)
(* searcher.go: quoting and the q string.                                  *)
(***************************************************************************)
Whitespace == {SP, DQ, TAB, CR, LF}

\* searcher.go:119 quoteKeyword
quoteKeyword(k) ==
  IF ContainsAny(k, Whitespace)
  THEN IF Contains(k, <<":">>)
       THEN LET c == IndexOf(k, ":") IN
              SubSeq(k, 1, c - 1) \o <<":">> \o Quote(SubSeq(k, c + 1, Len(k)))
       ELSE Quote(k)
  ELSE k

\* searcher.go:112 quoteKeywords: every element is replaced by its quoted form
\* and the slice itself is returned
quoteKeywords(ks) == [i \in 1..Len(ks) |-> quoteKeyword(ks[i])]

\* searcher.go:130 quoteQualifier
quoteQualifier(q) == IF ContainsAny(q, Whitespace) THEN Quote(q) ELSE q

\* the loop of searcher.go:36-39 and 103-106, visiting the map in order ord
RECURSIVE WriteQualifiers(_, _)
WriteQualifiers(m, ord) ==
  IF Len(ord) = 0 THEN s_empty
  ELSE <<SP>> \o Head(ord) \o <<":">> \o quoteQualifier(m[Head(ord)])
         \o WriteQualifiers(m, Tail(ord))

\* searcher.go:33-39 and 100-106: the q string built from the quoted keywords
BuildQ(quotedKeywords, m, ord) == Join(quotedKeywords, <<SP>>) \o WriteQualifiers(m, ord)

\* url.Values.Set / Add on a key that is absent or present once
ValuesSet(values, k, v) == [x \in DOMAIN values \cup {k} |-> IF x = k THEN v ELSE values[x]]

NoValues == [x \in {} |-> s_empty]

\* searcher.go:41-46 and 94-99: the order and sort parameters
WithOrderSort(values, query) ==
  LET v1 == IF IsSet(query.Order)
            THEN ValuesSet(values, Key(query.Order), String(query.Order))
            ELSE values
  IN IF IsSet(query.Sort)
     THEN ValuesSet(v1, Key(query.Sort), String(query.Sort))
     ELSE v1

(***************************************************************************)
(* net/url: Values.Encode and URL.Query().Get.                             *)
(***************************************************************************)
Unreserved ==
  {"a","b","c","d","e","f","g","h","i","j","k","l","m","n","o","p","q","r","s",
   "t","u","v","w","x","y","z","A","B","C","D","E","F","G","H","I","J","K","L",
   "M","N","O","P","Q","R","S","T","U","V","W","X","Y","Z","-","_",".","~"} \cup Digits

\* the percent escapes of the other characters of the alphabet
PercentCode ==
  [c \in {DQ, ":", BS, ">", "=", "<", "*", ",", TAB, CR, LF, "+", "%", "&", "[", "]"} |->
     CASE c = DQ -> <<"2","2">> [] c = ":" -> <<"3","A">> [] c = BS -> <<"5","C">>
       [] c = ">" -> <<"3","E">> [] c = "=" -> <<"3","D">> [] c = "<" -> <<"3","C">>
       [] c = "*" -> <<"2","A">> [] c = "," -> <<"2","C">> [] c = TAB -> <<"0","9">>
       [] c = CR -> <<"0","D">> [] c = LF -> <<"0","A">> [] c = "+" -> <<"2","B">>
       [] c = "%" -> <<"2","5">> [] c = "&" -> <<"2","6">> [] c = "[" -> <<"5","B">>
       [] c = "]" -> <<"5","D">>]

RECURSIVE QueryEscape(_)
QueryEscape(s) ==
  IF Len(s) = 0 THEN s_empty
  ELSE (IF Head(s) \in Unreserved THEN <<Head(s)>>
        ELSE IF Head(s) = SP THEN <<"+">>
        ELSE <<"%">> \o PercentCode[Head(s)]) \o QueryEscape(Tail(s))

RECURSIVE QueryUnescape(_)
QueryUnescape(s) ==
  IF Len(s) = 0 THEN s_empty
  ELSE IF Head(s) = "+" THEN <<SP>> \o QueryUnescape(Tail(s))
  ELSE IF Head(s) = "%"
  THEN <<CHOOSE c \in DOMAIN PercentCode : PercentCode[c] = SubSeq(s, 2, 3)>>
         \o QueryUnescape(SubSeq(s, 4, Len(s)))
  ELSE <<Head(s)>> \o QueryUnescape(Tail(s))

\* the keys the code sets, in the sorted order Values.Encode writes them
SortedKeys == <<s_order, s_page, s_per_page, s_q, s_sort, s_type>>

\* url.Values.Encode
Encode(values) ==
  LET present == SelectSeq(SortedKeys, LAMBDA k : k \in DOMAIN values) IN
    Join([i \in 1..Len(present) |-> present[i] \o <<"=">> \o QueryEscape(values[present[i]])],
         <<"&">>)

\* the pieces of s between occurrences of the character sep
RECURSIVE Split(_, _)
Split(s, sep) ==
  LET c == IndexOf(s, sep) IN
    IF c = 0 THEN <<s>> ELSE <<SubSeq(s, 1, c - 1)>> \o Split(SubSeq(s, c + 1, Len(s)), sep)

\* URL.Query().Get(key): the first value of key in the raw query, "" if none
QueryGet(rawQuery, key) ==
  LET pairs == Split(rawQuery, "&")
      keyOf(p) == LET c == IndexOf(p, "=") IN
                    QueryUnescape(IF c = 0 THEN p ELSE SubSeq(p, 1, c - 1))
      valOf(p) == LET c == IndexOf(p, "=") IN
                    IF c = 0 THEN s_empty ELSE QueryUnescape(SubSeq(p, c + 1, Len(p)))
      hits == SelectSeq(pairs, LAMBDA p : keyOf(p) = key)
  IN IF Len(hits) = 0 THEN s_empty ELSE valOf(hits[1])

\* strings.TrimSpace
RECURSIVE TrimLeft(_)
TrimLeft(s) == IF Len(s) > 0 /\ Head(s) \in {SP, TAB, CR, LF} THEN TrimLeft(Tail(s)) ELSE s

RECURSIVE TrimRight(_)
TrimRight(s) ==
  IF Len(s) > 0 /\ s[Len(s)] \in {SP, TAB, CR, LF}
  THEN TrimRight(SubSeq(s, 1, Len(s) - 1)) ELSE s

TrimSpace(s) == TrimRight(TrimLeft(s))

(***************************************************************************)
(* repos.go: NewSearchQuery.  The model keeps the two parameters and four  *)
(* of the qualifiers, one for each validator kind in use and one with none. *)
(***************************************************************************)
NewSearchQuery ==
  [Keywords |-> << >>,
   Kind |-> s_repositories,
   Limit |-> 0,
   Order |-> NewParameter(s_order, "string", s_desc, OptsValidator(<<s_asc, s_desc>>)),
   Sort |-> NewParameter(s_sort, "string", s_best_match,
                         OptsValidator(<<s_forks, s_hwi, s_stars, s_updated>>)),
   Qualifiers |->
     [id \in {"Archived", "Fork", "Language", "Stars"} |->
        CASE id = "Archived" -> NewQualifier(s_archived, "bool", s_empty, BoolValidator)
          [] id = "Fork" -> NewQualifier(s_fork, "string", s_false,
                                         OptsValidator(<<s_false, s_true, s_only>>))
          [] id = "Language" -> NewQualifier(s_language, "stringSlice", s_empty, NoValidator)
          [] id = "Stars" -> NewQualifier(s_stars, "string", s_empty, RangeValidator)]]

\* repos.go:71 the default of --limit
DefaultLimit == 30
\* repos.go:55 the range RunE accepts
MinLimit == 1
MaxLimit == 1000
\* searcher.go:47 the page size
PageSize == 100

\* the flags bound to a Parameter or Qualifier (repos.go:72-95)
Flags == {"order", "sort"} \cup DOMAIN NewSearchQuery.Qualifiers

\* the Parameter or Qualifier a flag is bound to
Target(query, flag) ==
  IF flag = "order" THEN query.Order
  ELSE IF flag = "sort" THEN query.Sort
  ELSE query.Qualifiers[flag]

WithTarget(query, flag, q) ==
  IF flag = "order" THEN [query EXCEPT !.Order = q]
  ELSE IF flag = "sort" THEN [query EXCEPT !.Sort = q]
  ELSE [query EXCEPT !.Qualifiers[flag] = q]

(***************************************************************************)
(* searcher.go: pagination arithmetic.                                     *)
(***************************************************************************)
\* the page count rounded down and one added, instead of rounded up
PagesFloorPlusOne(limit) == (limit \div PageSize) + 1

\* searcher.go:47 int(math.Ceil(float64(limit) / 100))
Pages(limit) == (limit + PageSize - 1) \div PageSize

\* searcher.go:50-57 the per_page value of page i
PerPage(limit, i) ==
  LET remaining == limit - (i * PageSize) IN
    IF remaining > PageSize THEN PageSize
    ELSE IF remaining <= 0 THEN limit
    ELSE remaining

\* searcher.go:49-57 the query string of the request for page i
PageRequest(queryString, limit, i) ==
  ValuesSet(ValuesSet(queryString, s_page, Itoa(i)), s_per_page, Itoa(PerPage(limit, i)))

s_host == <<"g","i","t","h","u","b",".","c","o","m">>
s_api_prefix == <<"h","t","t","p","s",":","/","/","a","p","i",".">>
s_search == <<"/","s","e","a","r","c","h">>
s_web_prefix == <<"h","t","t","p","s",":","/","/">>

\* searcher.go:31 the API path
ApiPath(kind) == s_api_prefix \o s_host \o s_search \o <<"/">> \o kind

\* searcher.go:91 the browser path
WebPath == s_web_prefix \o s_host \o s_search

(***************************************************************************)
(* searcher.go: httpError, handleHTTPError and Error.                      *)
(***************************************************************************)
s_ct_json == <<"a","p","p","l","i","c","a","t","i","o","n","/","j","s","o","n",";"," ","c","h","a","r","s","e","t","=","u","t","f","-","8">>
s_ct_html == <<"t","e","x","t","/","h","t","m","l">>
s_json == <<"j","s","o","n">>

\* searcher.go:137 jsonTypeRE = [/+]json($|;)
jsonTypeRE(s) ==
  \E i \in 1..Len(s) :
    /\ s[i] \in {"/", "+"}
    /\ SubSeq(s, i + 1, i + 4) = s_json
    /\ (i + 4 = Len(s) \/ (i + 5 <= Len(s) /\ s[i + 5] = ";"))

\* the errors of io.ReadAll and json.Unmarshal
ReadError == [kind |-> "read", msg |-> <<"u","n","e","x","p","e","c","t","e","d"," ","E","O","F">>]
JSONError == [kind |-> "json", msg |-> <<"u","n","e","x","p","e","c","t","e","d"," ","e","n","d"," ","o","f"," ","J","S","O","N"," ","i","n","p","u","t">>]

\* searcher.go:161 handleHTTPError; requestURL is resp.Request.URL
handleHTTPError(resp, requestURL) ==
  LET httpError == [kind |-> "http", Errors |-> << >>, Message |-> s_empty,
                    RequestURL |-> requestURL, StatusCode |-> resp.StatusCode] IN
    IF ~jsonTypeRE(resp.ContentType)
    THEN [httpError EXCEPT !.Message = resp.Status]
    ELSE IF resp.Body.kind = "unreadable" THEN ReadError
    ELSE IF resp.Body.kind = "garbage" THEN JSONError
    ELSE [httpError EXCEPT !.Errors = resp.Body.errors, !.Message = resp.Body.message]

s_http == <<"H","T","T","P"," ">>
s_invalid_query == <<"I","n","v","a","l","i","d"," ","s","e","a","r","c","h"," ","q","u","e","r","y"," ">>

\* the text of a URL
URLString(u) == u.path \o <<"?">> \o u.RawQuery

\* searcher.go:153 httpError.Error; indexing an empty Errors panics
httpErrorError(err) ==
  IF err.StatusCode # 422
  THEN [panic |-> FALSE,
        text |-> s_http \o Itoa(err.StatusCode) \o <<":", SP>> \o err.Message
                   \o <<SP, "(">> \o URLString(err.RequestURL) \o <<")">>]
  ELSE LET query == TrimSpace(QueryGet(err.RequestURL.RawQuery, s_q)) IN
         IF Len(err.Errors) = 0
         THEN [panic |-> TRUE, text |-> s_empty]
         ELSE [panic |-> FALSE,
               text |-> s_invalid_query \o Quote(query) \o <<".", LF>> \o err.Errors[1].Message]

(***************************************************************************)
(* The state.                                                              *)
(***************************************************************************)
VARIABLES
  pc,           \* "flags": flag parsing; "flagerror": RunE refused the limit;
                \* "ready": a Searcher call may be made; "waiting": Search has a
                \* request in flight
  query,        \* opts.Query (repos.go:30)
  setRet,       \* the flag, value and returned error of the latest Set call
  accepted,     \* history: the flags that had a Set call whose value passed
                \* the validator (or that have no validator)
  calls,        \* the number of URL/Search calls made
  queryString,  \* the url.Values of the latest URL/Search call
  url,          \* the string the latest URL call returned
  i,            \* Search's page index
  result,       \* Search's aggregate result
  requests,     \* the query strings of the requests Search has issued
  responses,    \* the responses the transport gave to them
  ret           \* what the latest Search returned: [result, err], or NoRet

vars == <<pc, query, setRet, accepted, calls, queryString, url, i, result,
          requests, responses, ret>>

NoRet == [returned |-> FALSE]
NoSet == [called |-> FALSE]

Init ==
  /\ pc = "flags"
  /\ query = [NewSearchQuery EXCEPT !.Limit = DefaultLimit]
  /\ setRet = NoSet
  /\ accepted = {}
  /\ calls = 0
  /\ queryString = NoValues
  /\ url = s_empty
  /\ i = 0
  /\ result = EmptyResult
  /\ requests = << >>
  /\ responses = << >>
  /\ ret = NoRet

(***************************************************************************)
(* The flag phase (repos.go:46-95).                                        *)
(***************************************************************************)
\* a flag bound with Flags().Var is given a value: qualifier.Set is called
FlagSet(flag, value) ==
  /\ pc = "flags"
  /\ LET r == Set(Target(query, flag), value) IN
       /\ query' = WithTarget(query, flag, r.q)
       /\ setRet' = [called |-> TRUE, flag |-> flag, value |-> value, err |-> r.err]
  /\ accepted' =
       IF Target(query, flag).validator.kind = "none"
            \/ Validate(Target(query, flag).validator, value) = Nil
       THEN accepted \cup {flag} ELSE accepted
  /\ UNCHANGED <<pc, calls, queryString, url, i, result, requests, responses, ret>>

\* repos.go:71 --limit is given a value
SetLimit(limit) ==
  /\ pc = "flags"
  /\ query' = [query EXCEPT !.Limit = limit]
  /\ UNCHANGED <<pc, setRet, accepted, calls, queryString, url, i, result,
                 requests, responses, ret>>

\* repos.go:46-62 RunE, up to the call of reposRun
RunE(args) ==
  /\ pc = "flags"
  /\ query' = [query EXCEPT !.Keywords = args]
  /\ pc' = IF query.Limit < MinLimit \/ query.Limit > MaxLimit THEN "flagerror" ELSE "ready"
  /\ setRet' = NoSet
  /\ UNCHANGED <<accepted, calls, queryString, url, i, result, requests, responses, ret>>

(***************************************************************************)
(* searcher.go: URL and Search.                                            *)
(***************************************************************************)
\* searcher.go:90 URL; ord is the order in which range visits ListSet's map.
\* quoteKeywords writes into the slice it is given, which shares its array
\* with query.Keywords of the caller.
URL(ord) ==
  /\ pc = "ready"
  /\ calls < MaxCalls
  /\ LET m == ListSet(query.Qualifiers)
         quotedKeywords == quoteKeywords(query.Keywords)
         v0 == WithOrderSort(ValuesSet(NoValues, s_type, query.Kind), query)
         v1 == ValuesSet(v0, s_q, BuildQ(quotedKeywords, m, ord))
     IN /\ ord \in RangeOrders(m)
        /\ query' = [query EXCEPT !.Keywords = quotedKeywords]
        /\ queryString' = v1
        /\ url' = WebPath \o <<"?">> \o Encode(v1)
  /\ calls' = calls + 1
  /\ UNCHANGED <<pc, setRet, accepted, i, result, requests, responses, ret>>

\* searcher.go:29-65 Search, up to the first call of client.Do
Search(ord) ==
  /\ pc = "ready"
  /\ calls < MaxCalls
  /\ LET m == ListSet(query.Qualifiers)
         quotedKeywords == quoteKeywords(query.Keywords)
         v0 == ValuesSet(NoValues, s_q, BuildQ(quotedKeywords, m, ord))
         v1 == WithOrderSort(v0, query)
     IN /\ ord \in RangeOrders(m)
        /\ query' = [query EXCEPT !.Keywords = quotedKeywords]
        /\ IF 1 <= Pages(query.Limit)
           THEN /\ queryString' = PageRequest(v1, query.Limit, 1)
                /\ requests' = <<queryString'>>
                /\ pc' = "waiting"
                /\ ret' = NoRet
           ELSE /\ queryString' = v1
                /\ requests' = << >>
                /\ pc' = "ready"
                /\ ret' = [returned |-> TRUE, result |-> EmptyResult, err |-> Nil]
  /\ result' = EmptyResult
  /\ i' = 1
  /\ responses' = << >>
  /\ calls' = calls + 1
  /\ UNCHANGED <<setRet, accepted, url>>

\* Search returns (result, err): searcher.go:61,67,72,76,81,87
Return(res, err) ==
  /\ ret' = [returned |-> TRUE, result |-> res, err |-> err]
  /\ pc' = "ready"
  /\ UNCHANGED <<requests, queryString, i>>

\* an aggregate that accumulates incomplete_results instead of overwriting it
AggregateOrIncomplete(res, pageResult) ==
  [IncompleteResults |-> res.IncompleteResults \/ pageResult.IncompleteResults,
   Items |-> res.Items \o pageResult.Items,
   TotalCount |-> pageResult.TotalCount]

\* searcher.go:78-85 the aggregate after a decoded page
Aggregate(res, pageResult) ==
  [IncompleteResults |-> pageResult.IncompleteResults,
   Items |-> res.Items \o pageResult.Items,
   TotalCount |-> pageResult.TotalCount]

\* the URL of the request in flight (resp.Request.URL)
RequestURL == [path |-> ApiPath(query.Kind), RawQuery |-> Encode(queryString)]

\* the per_page the server applies to the request in flight
ServedPerPage ==
  IF s_per_page \in DOMAIN queryString
  THEN Min(Atoi(queryString[s_per_page]), PageSize) ELSE 0

\* a transport failure after which Search returns what it has with a nil error
RespondTransportErrorSwallowed(e) ==
  /\ pc = "waiting"
  /\ responses' = Append(responses, [kind |-> "transport", err |-> e])
  /\ Return(result, Nil)
  /\ UNCHANGED <<query, setRet, accepted, calls, url, result>>

\* searcher.go:65-67 client.Do fails
RespondTransportError(e) ==
  /\ pc = "waiting"
  /\ responses' = Append(responses, [kind |-> "transport", err |-> e])
  /\ Return(result, e)
  /\ UNCHANGED <<query, setRet, accepted, calls, url, result>>

\* searcher.go:70-73 a response whose status is not 2xx
RespondHTTPError(status, contentType, body) ==
  /\ pc = "waiting"
  /\ LET resp == [StatusCode |-> status.code, Status |-> status.text,
                  ContentType |-> contentType, Body |-> body] IN
       /\ ~(resp.StatusCode >= 200 /\ resp.StatusCode < 300)
       /\ responses' = Append(responses, [kind |-> "http", resp |-> resp])
       /\ Return(result, handleHTTPError(resp, RequestURL))
  /\ UNCHANGED <<query, setRet, accepted, calls, url, result>>

\* searcher.go:74-77 a 2xx response whose body cannot be read
RespondReadError ==
  /\ pc = "waiting"
  /\ responses' = Append(responses, [kind |-> "unreadable"])
  /\ Return(result, ReadError)
  /\ UNCHANGED <<query, setRet, accepted, calls, url, result>>

\* searcher.go:78-82 a 2xx response whose body does not decode; it held n items
RespondDecodeError(n) ==
  /\ pc = "waiting"
  /\ responses' = Append(responses, [kind |-> "garbage", n |-> n])
  /\ Return(result, JSONError)
  /\ UNCHANGED <<query, setRet, accepted, calls, url, result>>

\* the items of a body: a run of n records of the response numbered k
Run(k, n) == IF n = 0 THEN << >> ELSE <<[response |-> k, n |-> n]>>

\* searcher.go:74-87 a 2xx response that decodes, then the next iteration up
\* to client.Do, or the return after the last page
RespondOK(body) ==
  /\ pc = "waiting"
  /\ body.n <= ServedPerPage
  /\ LET pageResult == [IncompleteResults |-> body.incomplete_results,
                        Items |-> Run(Len(responses) + 1, body.n),
                        TotalCount |-> body.total_count]
         agg == Aggregate(result, pageResult)
     IN /\ responses' = Append(responses, [kind |-> "ok", body |-> body])
        /\ result' = agg
        /\ i' = i + 1
        /\ IF i + 1 <= Pages(query.Limit)
           THEN /\ queryString' = PageRequest(queryString, query.Limit, i + 1)
                /\ requests' = Append(requests, queryString')
                /\ UNCHANGED <<pc, ret>>
           ELSE /\ ret' = [returned |-> TRUE, result |-> agg, err |-> Nil]
                /\ pc' = "ready"
                /\ UNCHANGED <<requests, queryString>>
  /\ UNCHANGED <<query, setRet, accepted, calls, url>>

(***************************************************************************)
(* The inputs.                                                             *)
(***************************************************************************)
\* values given to flags
Candidates == {s_asc, s_stars, s_only, s_c_c, s_true, s_ge10, s_1to5, s_5toabc}

\* the flag settings of the search runs
SearchFlagSets ==
  { <<"order", s_asc>>, <<"order", s_stars>>, <<"sort", s_stars>>,
    <<"Fork", s_only>>, <<"Fork", s_c_c>>, <<"Language", s_c_c>> }

\* the limits of the search runs: one below the accepted range, a multiple of
\* the page size, and one with a partial last page (the default is 30)
SearchLimits == {0, 100, 250}

\* every limit RunE accepts, and the two next to the range
AllLimits == (MinLimit - 1)..(MaxLimit + 1)

KeywordSamples == {s_hi_you, s_is_a_b}

RECURSIVE SeqsUpTo(_, _)
SeqsUpTo(S, n) ==
  IF n = 0 THEN {<< >>}
  ELSE SeqsUpTo(S, n - 1) \cup {Append(t, x) : t \in SeqsUpTo(S, n - 1), x \in S}

Args == SeqsUpTo(KeywordSamples, MaxKeywords)

TransportErrors ==
  { [kind |-> "transport", msg |-> <<"E","O","F">>],
    [kind |-> "transport", msg |-> <<"i","/","o"," ","t","i","m","e","o","u","t">>] }

Statuses ==
  { [code |-> 422, text |-> <<"4","2","2"," ","U","n","p","r","o","c","e","s","s","a","b","l","e"," ","E","n","t","i","t","y">>],
    [code |-> 500, text |-> <<"5","0","0"," ","I","n","t","e","r","n","a","l"," ","S","e","r","v","e","r"," ","E","r","r","o","r">>] }


s_bad_qualifier == <<"b","a","d"," ","q","u","a","l","i","f","i","e","r">>
s_too_long == <<"t","o","o"," ","l","o","n","g">>
s_validation_failed == <<"V","a","l","i","d","a","t","i","o","n"," ","F","a","i","l","e","d">>

\* the j-th entry of a server's errors list
ErrorItem(j) == [Message |-> IF j % 2 = 1 THEN s_bad_qualifier ELSE s_too_long]

ErrorBodies ==
  { [kind |-> "unreadable"], [kind |-> "garbage"] } \cup
  { [kind |-> "json", message |-> s_validation_failed,
     errors |-> [j \in 1..k |-> ErrorItem(j)]] : k \in 0..MaxErrors }

\* the bodies of a 2xx response: the server returns at most per_page items,
\* and at most PageSize
\* the non-2xx responses: a 422 with every body under a JSON content type,
\* another status with a JSON error body, and each status under another
\* content type (the code does not read that body)
ErrorResponses ==
  { <<st, s_ct_json, b>> : st \in {x \in Statuses : x.code = 422}, b \in ErrorBodies } \cup
  { <<st, s_ct_json, [kind |-> "json", message |-> s_validation_failed,
                      errors |-> <<ErrorItem(1)>>]>> : st \in {x \in Statuses : x.code # 422} } \cup
  { <<st, s_ct_html, [kind |-> "garbage"]>> : st \in Statuses }

OkBodies ==
  { [n |-> ServedPerPage, total_count |-> 500, incomplete_results |-> FALSE],
    [n |-> ServedPerPage, total_count |-> 500, incomplete_results |-> TRUE],
    [n |-> 0, total_count |-> 499, incomplete_results |-> FALSE] }

FullBodies ==
  { [n |-> n, total_count |-> 500, incomplete_results |-> FALSE] : n \in {0, ServedPerPage} }

(***************************************************************************)
(* Specifications.                                                         *)
(***************************************************************************)
\* a search run: flags, RunE, then URL/Search calls against any transport
Next ==
  \/ \E fv \in SearchFlagSets : FlagSet(fv[1], fv[2])
  \/ \E limit \in SearchLimits : SetLimit(limit)
  \/ \E args \in Args : RunE(args)
  \/ \E ord \in RangeOrders(ListSet(query.Qualifiers)) : URL(ord)
  \/ \E ord \in RangeOrders(ListSet(query.Qualifiers)) : Search(ord)
  \/ \E e \in TransportErrors : RespondTransportError(e)
  \/ \E r \in ErrorResponses : RespondHTTPError(r[1], r[2], r[3])
  \/ RespondReadError
  \/ \E n \in {ServedPerPage} : RespondDecodeError(n)
  \/ \E body \in OkBodies : RespondOK(body)

Spec == Init /\ [][Next]_vars

\* the flag phase alone, every flag with every candidate value
NextFlags == \E flag \in Flags, value \in Candidates : FlagSet(flag, value)

SpecFlags == Init /\ [][NextFlags]_vars

\* searches of every limit against a transport that always succeeds
NextPaging ==
  \/ \E limit \in AllLimits : SetLimit(limit)
  \/ RunE(<< >>)
  \/ \E ord \in RangeOrders(ListSet(query.Qualifiers)) : Search(ord)
  \/ \E body \in FullBodies : RespondOK(body)

SpecPaging == Init /\ [][NextPaging]_vars

(***************************************************************************)
(* Properties.                                                             *)
(***************************************************************************)
\* a Search has returned without error
Succeeded == ret.returned /\ ret.err = Nil

\* the (page, per_page) pairs of the requests issued, as numbers
RequestPairs ==
  [k \in 1..Len(requests) |->
     <<Atoi(requests[k][s_page]), Atoi(requests[k][s_per_page])>>]

\* the number of records in a run-length list of items
RECURSIVE ItemCount(_)
ItemCount(items) == IF Len(items) = 0 THEN 0 ELSE Head(items).n + ItemCount(Tail(items))

\* the items of the successful responses among the first k, in response order
RECURSIVE OkItems(_, _)
OkItems(rs, k) ==
  IF k = 0 THEN << >>
  ELSE OkItems(rs, k - 1) \o
         (IF rs[k].kind = "ok" /\ rs[k].body.n > 0
          THEN <<[response |-> k, n |-> rs[k].body.n]>> ELSE << >>)

\* C1: when every page succeeds, limit 250 issues exactly the requests
\* (page 1, per_page 100), (page 2, per_page 100), (page 3, per_page 50) in
\* that order, limit 100 exactly (1, 100) and limit 30 exactly (1, 30).
C1_PaginationArithmetic ==
  Succeeded =>
    /\ query.Limit = 250 => RequestPairs = << <<1, 100>>, <<2, 100>>, <<3, 50>> >>
    /\ query.Limit = 100 => RequestPairs = << <<1, 100>> >>
    /\ query.Limit = 30 => RequestPairs = << <<1, 30>> >>

\* a step that is a call of URL: a Searcher call that leaves no request in flight
IsURLStep == pc = "ready" /\ pc' = "ready" /\ calls' = calls + 1

\* C2: URL issues no request and leaves the Query as it was, and a
\* serialization that follows a URL call on the same Query produces the same
\* q string as that call did.
C2_URLIsPure ==
  [][ /\ IsURLStep => (query' = query /\ requests' = requests /\ responses' = responses)
      /\ (calls' = calls + 1 /\ s_type \in DOMAIN queryString)
           => queryString'[s_q] = queryString[s_q] ]_vars

\* the text of an error, or the panic raised while rendering it
ErrorText(err) ==
  IF err.kind = "http" THEN httpErrorError(err) ELSE [panic |-> FALSE, text |-> err.msg]

\* the latest response is a 422
Got422 ==
  /\ Len(responses) >= 1
  /\ responses[Len(responses)].kind = "http"
  /\ responses[Len(responses)].resp.StatusCode = 422

\* C3: after a 422 response Search has returned a non-nil error whose message
\* renders and contains the submitted q value and the first error detail the
\* server reported (when it reported one); the aggregate holds the earlier
\* pages' items only and no further request was issued.
C3_Surfaces422 ==
  Got422 =>
    LET body == responses[Len(responses)].resp.Body
        submitted == requests[Len(responses)][s_q]
    IN /\ ret.returned /\ ret.err # Nil
       /\ ~ErrorText(ret.err).panic
       /\ Contains(ErrorText(ret.err).text, submitted)
       /\ (body.kind = "json" /\ Len(body.errors) >= 1)
            => Contains(ErrorText(ret.err).text, body.errors[1].Message)
       /\ ret.result.Items = OkItems(responses, Len(responses))
       /\ Len(requests) = Len(responses)

\* C4: with every page successful and the server returning at most
\* min(per_page, 100) items per page, the aggregate never holds more items
\* than the limit, for every limit RunE accepts.
C4_HonorsLimit ==
  /\ ItemCount(result.Items) <= query.Limit
  /\ Succeeded => ItemCount(ret.result.Items) <= query.Limit

C4_Witness ==
  /\ Succeeded
  /\ query.Limit = 250
  /\ Len(responses) = 3
  /\ ItemCount(ret.result.Items) = 250

\* C5: pages are requested one at a time in increasing order; a failed
\* response is the last one of its Search, no request follows it, it adds no
\* items, and Search has returned a non-nil error, which for a transport
\* error is the transport's error.  A nil error is returned only when every
\* response succeeded.
C5_AbortOnFirstFailure ==
  /\ \A k \in 1..Len(requests) : Atoi(requests[k][s_page]) = k
  /\ Len(requests) = Len(responses) + (IF pc = "waiting" THEN 1 ELSE 0)
  /\ result.Items = OkItems(responses, Len(responses))
  /\ \A k \in 1..Len(responses) :
       responses[k].kind # "ok" =>
         /\ k = Len(responses)
         /\ Len(requests) = k
         /\ pc = "ready"
         /\ ret.returned /\ ret.err # Nil
         /\ responses[k].kind = "transport" => ret.err = responses[k].err
         /\ ret.result.Items = OkItems(responses, k - 1)
  /\ Succeeded => \A k \in 1..Len(responses) : responses[k].kind = "ok"

C5_Witness ==
  /\ Len(responses) = 2
  /\ responses[1].kind = "ok" /\ responses[1].body.n > 0
  /\ responses[2].kind = "transport"
  /\ ret.returned /\ ret.err = responses[2].err
  /\ Len(requests) = 2 /\ Pages(query.Limit) = 3

\* C6: when Search returns with every page successful, the items are the
\* concatenation of the pages' items in request order, and total_count and
\* incomplete_results are those of the last page.
C6_AggregateLastPageWins ==
  (Succeeded /\ Len(responses) >= 1) =>
    LET last == responses[Len(responses)].body IN
      /\ ret.result.Items = OkItems(responses, Len(responses))
      /\ ret.result.TotalCount = last.total_count
      /\ ret.result.IncompleteResults = last.incomplete_results

C6_Witness ==
  /\ Succeeded
  /\ Len(responses) = 3
  /\ responses[1].body.n = 0 /\ responses[2].body.n > 0 /\ responses[3].body.n > 0
  /\ responses[1].body.total_count = 499 /\ responses[3].body.total_count = 500
  /\ ~responses[2].body.incomplete_results /\ responses[3].body.incomplete_results
  /\ ret.result.IncompleteResults
  /\ ret.result.Items = <<[response |-> 2, n |-> responses[2].body.n],
                          [response |-> 3, n |-> responses[3].body.n]>>

\* the values each flag's validator is to accept (spec 4.1; repos.go:213-235)
Acceptable ==
  [flag \in Flags |->
     CASE flag = "order" -> {s_asc, s_desc}
       [] flag = "sort" -> {s_forks, s_hwi, s_stars, s_updated}
       [] flag = "Fork" -> {s_false, s_true, s_only}
       [] flag = "Language" -> Candidates
       [] flag = "Archived" -> {s_true, s_false}
       [] flag = "Stars" -> {s_ge10, s_1to5}]

\* C7: a Set call with a value the validator rejects returns an error and
\* leaves IsSet() and String() of every Qualifier/Parameter as they were; a
\* Set call with an accepted value (or without validator) returns no error
\* and makes IsSet() true and String() that value.
C7_RejectionIsNoOp ==
  [][ LET c == setRet'
          before == Target(query, c.flag)
          after == Target(query', c.flag)
      IN /\ (c.err # Nil) <=> (c.value \notin Acceptable[c.flag])
         /\ c.err # Nil =>
              /\ IsSet(after) = IsSet(before) /\ String(after) = String(before)
              /\ query' = query
         /\ c.err = Nil =>
              /\ IsSet(after) /\ String(after) = c.value
              /\ \A f \in Flags \ {c.flag} : Target(query', f) = Target(query, f) ]_vars

C7_Witness ==
  /\ setRet.called
  /\ setRet.err # Nil
  /\ IsSet(Target(query, setRet.flag))
  /\ String(Target(query, setRet.flag)) \in Acceptable[setRet.flag]
  /\ \E f \in Flags : ~IsSet(Target(query, f)) /\ String(Target(query, f)) # s_empty

\* C8: IsSet() is true exactly for the flags that had a Set call with an
\* accepted value; it is false after construction, also with a non-empty
\* default, and once true it stays true.
C8_SetIffAccepted ==
  /\ [](\A f \in Flags : IsSet(Target(query, f)) <=> f \in accepted)
  /\ [][\A f \in Flags : IsSet(Target(query, f)) => IsSet(Target(query', f))]_vars

C8_Witness ==
  /\ setRet.called /\ setRet.err # Nil /\ setRet.flag = "order"
  /\ ~IsSet(query.Order) /\ String(query.Order) = s_desc
  /\ IsSet(query.Qualifiers["Fork"]) /\ ~IsSet(query.Qualifiers["Stars"])

\* the number of places where sub occurs in s, followed by one of the
\* characters of ends or by the end of s when atEnd
Occurrences(s, sub, ends, atEnd) ==
  Cardinality({p \in 1..(Len(s) - Len(sub) + 1) :
     /\ SubSeq(s, p, p + Len(sub) - 1) = sub
     /\ \/ ends = {}
        \/ (p + Len(sub) <= Len(s) /\ s[p + Len(sub)] \in ends)
        \/ (atEnd /\ p + Len(sub) - 1 = Len(s))})

\* the token of a set qualifier: key:value, the value in double quotes when
\* it contains whitespace (the candidate values hold no quote or backslash)
TokenOf(q) ==
  q.key \o <<":">> \o
    (IF \E p \in 1..Len(q.value) : q.value[p] = SP
     THEN <<DQ>> \o q.value \o <<DQ>> ELSE q.value)

\* the query strings the Searcher calls have produced
Serialized == {queryString} \cup {requests[k] : k \in 1..Len(requests)}

\* C9: in every q string built by URL or Search, each set Qualifier has
\* exactly one key:value token with its wire key and value, an unset
\* Qualifier has none (also with a non-empty default), and the order and sort
\* parameters are present exactly when their Parameter is set.
C9_SetQualifiersSerialized ==
  calls > 0 =>
    /\ \A qs \in {v[s_q] : v \in Serialized} :
         \A id \in DOMAIN query.Qualifiers :
           LET q == query.Qualifiers[id] IN
             IF q.set
             THEN /\ Occurrences(qs, <<SP>> \o q.key \o <<":">>, {}, FALSE) = 1
                  /\ Occurrences(qs, <<SP>> \o TokenOf(q), {SP}, TRUE) = 1
             ELSE Occurrences(qs, <<SP>> \o q.key \o <<":">>, {}, FALSE) = 0
    /\ \A v \in Serialized :
         /\ (s_order \in DOMAIN v) <=> query.Order.set
         /\ query.Order.set => v[s_order] = query.Order.value
         /\ (s_sort \in DOMAIN v) <=> query.Sort.set
         /\ query.Sort.set => v[s_sort] = query.Sort.value

C9_Witness ==
  /\ calls = MaxCalls
  /\ Len(requests) >= 1
  /\ url # s_empty
  /\ query.Qualifiers["Language"].set /\ query.Qualifiers["Language"].value = s_c_c
  /\ query.Qualifiers["Fork"].set
  /\ ~query.Qualifiers["Archived"].set
  /\ query.Order.set /\ ~query.Sort.set /\ query.Sort.value # s_empty
  /\ Len(query.Keywords) >= 1

\* the result ranks a request asks for
Window(pair) ==
  LET p == Min(pair[2], PageSize) IN ((pair[1] - 1) * p + 1)..(pair[1] * p)

\* C10: on a run where every page succeeds, the rank windows of the requests
\* are pairwise disjoint and their union is exactly 1..limit.
C10_PagesTileTheResults ==
  Succeeded =>
    /\ \A j, k \in 1..Len(requests) :
         j # k => Window(RequestPairs[j]) \cap Window(RequestPairs[k]) = {}
    /\ UNION {Window(RequestPairs[k]) : k \in 1..Len(requests)} = 1..query.Limit

=============================================================================
